---- MODULE Spec2Model ----
(***************************************************************************)
(* A model of java_type_checker/expressions.py: the expression AST         *)
(* (JavaVariable, JavaLiteral, JavaNullLiteral, JavaAssignment,            *)
(* JavaMethodCall, JavaConstructorCall), static_type() and the recursive   *)
(* check_types() pass, run as a stack machine over one expression tree.    *)
(* The type model (java_type_checker/types.py: is_subtype_of,              *)
(* method_named, constructor) is imported by expressions.py; it is         *)
(* modelled here from its specification.                                   *)
(***************************************************************************)
EXTENDS Integers, Sequences, FiniteSets, TLC

VARIABLES
    superclass,  \* the class table's superclass links: ClassNames -> type
    root,        \* the expression tree check_types() is invoked on
    stack,       \* the active check_types() calls: frames [path, pc], top last
    calls,       \* per node (by path): how many times its check_types() was entered
    returned,    \* nodes whose check_types() returned without raising
    typed,       \* nodes on which static_type() was evaluated during the pass
    matched,     \* <<len(given), len(expected)>> of every check_argument_match call
    queried,     \* the types whose constructor attribute was read
    result,      \* "running", "ok", or the name of the exception that surfaced
    raised_at    \* the path of the node whose own checks raised (<<-1>>: none)

vars == <<superclass, root, stack, calls, returned, typed, matched, queried, result,
          raised_at>>

(***************************************************************************)
(* Bounds                                                                  *)
(***************************************************************************)
\* the largest number of AST nodes in a checked expression tree
MaxNodes == 3

(***************************************************************************)
(* The type model                                                          *)
(***************************************************************************)
INT == "int"
JBOOLEAN == "boolean"
VOID == "void"
NULL == "null"
OBJECT == "Object"

Primitives == {INT, JBOOLEAN, VOID}
ClassNames == {"A", "B"}
ObjectTypes == {OBJECT} \cup ClassNames
Types == Primitives \cup {NULL} \cup ObjectTypes
MethodNames == {"m", "n"}

\* the exceptions a check can end with
Errors == {"JavaTypeMismatchError", "JavaArgumentCountError",
           "JavaIllegalInstantiationError", "NoSuchJavaMethod",
           "AttributeError", "IndexError"}

RECURSIVE ChainLength(_, _)
ChainLength(sup, c) ==
    IF c \notin ClassNames THEN 0
    ELSE IF sup[c] = c THEN Cardinality(ClassNames) + 1
    ELSE 1 + ChainLength([sup EXCEPT ![c] = c], sup[c])

\* superclass links are never cyclic (enforced by construction)
ClassTables ==
    {sup \in [ClassNames -> ObjectTypes] :
        \A c \in ClassNames : ChainLength(sup, c) <= Cardinality(ClassNames)}

RECURSIVE InChain(_, _)
InChain(candidate, target) ==
    IF candidate = target THEN TRUE
    ELSE IF candidate \in ClassNames THEN InChain(superclass[candidate], target)
    ELSE FALSE

\* a plausible slip: only the direct superclass is consulted
is_subtype_of_direct(candidate, target) ==
    \/ candidate = target
    \/ candidate = NULL /\ target \in ObjectTypes
    \/ candidate \in ClassNames /\ superclass[candidate] = target

is_subtype_of(candidate, target) ==
    IF candidate = target THEN TRUE
    ELSE IF candidate = NULL THEN target \in ObjectTypes
    ELSE InChain(candidate, target)

Signature(params, ret) == [found |-> TRUE, parameter_types |-> params, return_type |-> ret]
NoMethod == [found |-> FALSE, parameter_types |-> <<>>, return_type |-> "NoSuchJavaMethod"]

\* the methods each object type declares itself
methods(type, name) ==
    CASE type = "A" /\ name = "m" -> Signature(<<"A">>, "B")
      [] type = "A" /\ name = "n" -> Signature(<<>>, INT)
      [] type = "B" /\ name = "m" -> Signature(<<INT, "B">>, "A")
      [] OTHER -> NoMethod

RECURSIVE method_named(_, _)
method_named(type, name) ==
    IF methods(type, name).found THEN methods(type, name)
    ELSE IF type \in ClassNames THEN method_named(superclass[type], name)
    ELSE NoMethod

\* the one constructor signature of each object type; other types have none
HasConstructor(type) == type \in ObjectTypes
constructor(type) ==
    CASE type = "A" -> [parameter_types |-> <<INT, "A">>]
      [] type = "B" -> [parameter_types |-> <<>>]
      [] OTHER -> [parameter_types |-> <<>>]

(***************************************************************************)
(* The expression AST                                                      *)
(***************************************************************************)
JavaVariable(declared_type) ==
    [kind |-> "JavaVariable", declared_type |-> declared_type]
JavaLiteral(type) ==
    [kind |-> "JavaLiteral", type |-> type]
JavaNullLiteral ==
    [kind |-> "JavaNullLiteral", type |-> NULL]
JavaAssignment(lhs, rhs) ==
    [kind |-> "JavaAssignment", lhs |-> lhs, rhs |-> rhs]
JavaMethodCall(receiver, method_name, args) ==
    [kind |-> "JavaMethodCall", receiver |-> receiver,
     method_name |-> method_name, args |-> args]
JavaConstructorCall(instantiated_type, args) ==
    [kind |-> "JavaConstructorCall", instantiated_type |-> instantiated_type,
     args |-> args]

\* the operands the external builder draws from
VariableTypes == {INT, OBJECT, "A", "B"}
LiteralTypes == {JBOOLEAN}
InstantiatedTypes == {INT, NULL, "A", "B"}
Variables == {JavaVariable(t) : t \in VariableTypes}
Leaves == Variables \cup {JavaLiteral(t) : t \in LiteralTypes} \cup {JavaNullLiteral}

RECURSIVE ExprsOfSize(_)
RECURSIVE ArgsOfSize(_)
\* the argument lists whose expressions have n nodes in all
ArgsOfSize(n) ==
    IF n = 0 THEN {<<>>}
    ELSE UNION {{<<e>> \o rest : e \in ExprsOfSize(k), rest \in ArgsOfSize(n - k)} :
                k \in 1..n}
\* the expression trees of exactly n nodes
ExprsOfSize(n) ==
    IF n = 1
    THEN Leaves \cup {JavaConstructorCall(t, <<>>) : t \in InstantiatedTypes}
    ELSE (IF n >= 3
          THEN {JavaAssignment(v, r) : v \in Variables, r \in ExprsOfSize(n - 2)}
          ELSE {})
         \cup UNION {{JavaMethodCall(r, m, a) :
                        r \in ExprsOfSize(k), m \in MethodNames, a \in ArgsOfSize(n - 1 - k)} :
                     k \in 1..(n - 1)}
         \cup {JavaConstructorCall(t, a) : t \in InstantiatedTypes, a \in ArgsOfSize(n - 1)}

Exprs == UNION {ExprsOfSize(n) : n \in 1..MaxNodes}

\* the sub-expressions of a node in the order check_types() visits them
Children(e) ==
    CASE e.kind = "JavaAssignment" -> <<e.lhs, e.rhs>>
      [] e.kind = "JavaMethodCall" -> <<e.receiver>> \o e.args
      [] e.kind = "JavaConstructorCall" -> e.args
      [] OTHER -> <<>>

RECURSIVE NodeAt(_, _)
NodeAt(e, path) ==
    IF path = <<>> THEN e ELSE NodeAt(Children(e)[Head(path)], Tail(path))

Under(i, paths) == {<<i>> \o q : q \in paths}

RECURSIVE Paths(_)
Paths(e) ==
    {<<>>} \cup UNION {Under(i, Paths(Children(e)[i])) : i \in 1..Len(Children(e))}

IsPrefix(p, q) == Len(p) <= Len(q) /\ SubSeq(q, 1, Len(p)) = p
\* calls is defined on exactly the paths of the root's nodes
Descendants(p) == {q \in DOMAIN calls : IsPrefix(p, q) /\ q # p}

(***************************************************************************)
(* static_type()                                                           *)
(***************************************************************************)
RECURSIVE static_type_of_receiver(_)
\* a plausible slip: a method call typed as its receiver
static_type_of_receiver(e) ==
    CASE e.kind = "JavaVariable" -> e.declared_type
      [] e.kind = "JavaLiteral" -> e.type
      [] e.kind = "JavaNullLiteral" -> NULL
      [] e.kind = "JavaAssignment" -> static_type_of_receiver(e.lhs)
      [] e.kind = "JavaMethodCall" -> static_type_of_receiver(e.receiver)
      [] e.kind = "JavaConstructorCall" -> e.instantiated_type

RECURSIVE static_type_null_as_object(_)
\* a plausible slip: the null literal typed as the object root
static_type_null_as_object(e) ==
    CASE e.kind = "JavaVariable" -> e.declared_type
      [] e.kind = "JavaLiteral" -> e.type
      [] e.kind = "JavaNullLiteral" -> OBJECT
      [] e.kind = "JavaAssignment" -> static_type_null_as_object(e.lhs)
      [] e.kind = "JavaMethodCall" ->
            LET receiver_type == static_type_null_as_object(e.receiver)
            IN  IF receiver_type \in Errors THEN receiver_type
                ELSE method_named(receiver_type, e.method_name).return_type
      [] e.kind = "JavaConstructorCall" -> e.instantiated_type

RECURSIVE static_type(_)
static_type(e) ==
    CASE e.kind = "JavaVariable" -> e.declared_type
      [] e.kind = "JavaLiteral" -> e.type
      [] e.kind = "JavaNullLiteral" -> NULL
      [] e.kind = "JavaAssignment" -> static_type(e.lhs)
      [] e.kind = "JavaMethodCall" ->
            LET receiver_type == static_type(e.receiver)
            IN  IF receiver_type \in Errors THEN receiver_type
                ELSE method_named(receiver_type, e.method_name).return_type
      [] e.kind = "JavaConstructorCall" -> e.instantiated_type

\* the nodes (as paths below e) on which one static_type(e) call evaluates static_type
RECURSIVE StaticTypeCalls(_)
StaticTypeCalls(e) ==
    {<<>>} \cup
    (CASE e.kind = "JavaAssignment" -> Under(1, StaticTypeCalls(e.lhs))
       [] e.kind = "JavaMethodCall" -> Under(1, StaticTypeCalls(e.receiver))
       [] OTHER -> {})

(***************************************************************************)
(* check_argument_match                                                    *)
(***************************************************************************)
RECURSIVE MatchFrom(_, _, _)
MatchFrom(given_expr_list, expected_type_list, i) ==
    IF i > Len(expected_type_list) THEN "True"
    ELSE IF i > Len(given_expr_list) THEN "IndexError"
    ELSE LET given_type == static_type(given_expr_list[i])
             expected_type == expected_type_list[i]
         IN  IF given_type \in Errors THEN given_type
             ELSE IF ~is_subtype_of(given_type, expected_type) THEN "False"
             ELSE MatchFrom(given_expr_list, expected_type_list, i + 1)

check_argument_match(given_expr_list, expected_type_list) ==
    MatchFrom(given_expr_list, expected_type_list, 1)

\* the arguments (by position) whose static_type() a match and its diagnostic read
ArgsTyped(given_expr_list, expected_type_list, match) ==
    IF match = "True"
    THEN {i \in 1..Len(given_expr_list) : i <= Len(expected_type_list)}
    ELSE 1..Len(given_expr_list)

MatchError(match) ==
    CASE match = "True" -> "ok"
      [] match = "False" -> "JavaTypeMismatchError"
      [] OTHER -> match

(***************************************************************************)
(* The checks a node makes itself, once its sub-expressions are checked:   *)
(* the exception raised ("ok": none), the nodes static_type() was          *)
(* evaluated on, the check_argument_match calls and the constructors read. *)
(***************************************************************************)
Effect(error, typedPaths, matchCalls, ctorReads) ==
    [error |-> error, typed |-> typedPaths, matched |-> matchCalls, queried |-> ctorReads]

ArgPaths(e, offset, positions) ==
    UNION {Under(i + offset, StaticTypeCalls(e.args[i])) : i \in positions}

\* a plausible slip: the subtype test the wrong way round
JavaAssignment_check_reversed(e) ==
    Effect(IF ~is_subtype_of(static_type(e.lhs), static_type(e.rhs))
           THEN "JavaTypeMismatchError" ELSE "ok",
           Under(1, StaticTypeCalls(e.lhs)) \cup Under(2, StaticTypeCalls(e.rhs)), {}, {})

JavaAssignment_check(e) ==
    LET lhs_type == static_type(e.lhs)
        rhs_type == static_type(e.rhs)
        lhs_calls == Under(1, StaticTypeCalls(e.lhs))
        rhs_calls == Under(2, StaticTypeCalls(e.rhs))
    IN  IF lhs_type \in Errors THEN Effect(lhs_type, lhs_calls, {}, {})
        ELSE IF rhs_type \in Errors THEN Effect(rhs_type, lhs_calls \cup rhs_calls, {}, {})
        ELSE IF ~is_subtype_of(rhs_type, lhs_type)
        THEN Effect("JavaTypeMismatchError", lhs_calls \cup rhs_calls, {}, {})
        ELSE Effect("ok", lhs_calls \cup rhs_calls, {}, {})

\* a plausible slip: the argument types compared before the argument count
JavaMethodCall_check_types_first(e) ==
    LET receiver_type == static_type(e.receiver)
        receiver_calls == Under(1, StaticTypeCalls(e.receiver))
        method == method_named(receiver_type, e.method_name)
        match == check_argument_match(e.args, method.parameter_types)
        calls_made == {<<Len(e.args), Len(method.parameter_types)>>}
        arg_calls == ArgPaths(e, 1, ArgsTyped(e.args, method.parameter_types, match))
    IN  IF ~method.found THEN Effect("NoSuchJavaMethod", receiver_calls, {}, {})
        ELSE IF match # "True"
        THEN Effect(MatchError(match), receiver_calls \cup arg_calls, calls_made, {})
        ELSE IF Len(method.parameter_types) # Len(e.args)
        THEN Effect("JavaArgumentCountError", receiver_calls \cup arg_calls, calls_made, {})
        ELSE Effect("ok", receiver_calls \cup arg_calls, calls_made, {})

JavaMethodCall_check(e) ==
    LET receiver_type == static_type(e.receiver)
        receiver_calls == Under(1, StaticTypeCalls(e.receiver))
    IN  IF receiver_type \in Errors THEN Effect(receiver_type, receiver_calls, {}, {})
        ELSE
        LET method == method_named(receiver_type, e.method_name)
        IN  IF ~method.found THEN Effect("NoSuchJavaMethod", receiver_calls, {}, {})
            ELSE IF Len(method.parameter_types) # Len(e.args)
            THEN Effect("JavaArgumentCountError", receiver_calls, {}, {})
            ELSE
            LET match == check_argument_match(e.args, method.parameter_types)
                arg_calls == ArgPaths(e, 1, ArgsTyped(e.args, method.parameter_types, match))
            IN  Effect(MatchError(match), receiver_calls \cup arg_calls,
                       {<<Len(e.args), Len(method.parameter_types)>>}, {})

\* a plausible slip: the constructor read before the instantiability test
JavaConstructorCall_check_unguarded(e) ==
    IF ~HasConstructor(e.instantiated_type)
    THEN Effect("AttributeError", {}, {}, {e.instantiated_type})
    ELSE IF ~is_subtype_of(e.instantiated_type, OBJECT)
    THEN Effect("JavaIllegalInstantiationError", {}, {}, {e.instantiated_type})
    ELSE LET parameter_types == constructor(e.instantiated_type).parameter_types
             match == check_argument_match(e.args, parameter_types)
         IN  IF Len(parameter_types) # Len(e.args)
             THEN Effect("JavaArgumentCountError", {}, {}, {e.instantiated_type})
             ELSE Effect(MatchError(match),
                         ArgPaths(e, 0, ArgsTyped(e.args, parameter_types, match)),
                         {<<Len(e.args), Len(parameter_types)>>}, {e.instantiated_type})

\* a plausible slip: the argument count never compared
JavaConstructorCall_check_no_count(e) ==
    IF ~is_subtype_of(e.instantiated_type, OBJECT)
    THEN Effect("JavaIllegalInstantiationError", {}, {}, {})
    ELSE IF ~HasConstructor(e.instantiated_type)
    THEN Effect("AttributeError", {}, {}, {e.instantiated_type})
    ELSE LET parameter_types == constructor(e.instantiated_type).parameter_types
             match == check_argument_match(e.args, parameter_types)
         IN  Effect(MatchError(match),
                    ArgPaths(e, 0, ArgsTyped(e.args, parameter_types, match)),
                    {<<Len(e.args), Len(parameter_types)>>}, {e.instantiated_type})

JavaConstructorCall_check(e) ==
    IF ~is_subtype_of(e.instantiated_type, OBJECT)
    THEN Effect("JavaIllegalInstantiationError", {}, {}, {})
    ELSE IF ~HasConstructor(e.instantiated_type)
    THEN Effect("AttributeError", {}, {}, {e.instantiated_type})
    ELSE
    LET parameter_types == constructor(e.instantiated_type).parameter_types
    IN  IF Len(parameter_types) # Len(e.args)
        THEN Effect("JavaArgumentCountError", {}, {}, {e.instantiated_type})
        ELSE
        LET match == check_argument_match(e.args, parameter_types)
        IN  Effect(MatchError(match),
                   ArgPaths(e, 0, ArgsTyped(e.args, parameter_types, match)),
                   {<<Len(e.args), Len(parameter_types)>>}, {e.instantiated_type})

(***************************************************************************)
(* check_types() as a stack machine                                        *)
(***************************************************************************)
NoPath == <<-1>>

Init ==
    /\ superclass \in ClassTables
    /\ root \in Exprs
    /\ stack = <<[path |-> <<>>, pc |-> 0]>>
    /\ calls = [p \in Paths(root) |-> IF p = <<>> THEN 1 ELSE 0]
    /\ returned = {}
    /\ typed = {}
    /\ matched = {}
    /\ queried = {}
    /\ result = "running"
    /\ raised_at = NoPath

Top == stack[Len(stack)]
TopNode == NodeAt(root, Top.path)
Running(kind) == stack # <<>> /\ TopNode.kind = kind

\* sub-expression i of the running node: its check_types() is entered
CallChild(i) ==
    LET child == Top.path \o <<i>>
    IN  /\ stack' = Append(stack, [path |-> child, pc |-> 0])
        /\ calls' = [calls EXCEPT ![child] = @ + 1]
        /\ UNCHANGED <<superclass, root, returned, typed, matched, queried, result,
                       raised_at>>

\* the running check_types() returns to its caller, which moves on
Return ==
    /\ returned' = returned \cup {Top.path}
    /\ IF Len(stack) = 1
       THEN stack' = <<>> /\ result' = "ok"
       ELSE /\ stack' = [SubSeq(stack, 1, Len(stack) - 1)
                            EXCEPT ![Len(stack) - 1].pc = @ + 1]
            /\ result' = result
    /\ UNCHANGED <<superclass, root, calls, raised_at>>

\* an exception leaves every active check_types(): nothing in the module catches it
Raise(error) ==
    /\ stack' = <<>>
    /\ result' = error
    /\ raised_at' = Top.path
    /\ UNCHANGED <<superclass, root, calls, returned>>

\* the running node's own checks, with what they evaluated
OwnChecks(effect) ==
    /\ typed' = typed \cup {Top.path \o q : q \in effect.typed}
    /\ matched' = matched \cup effect.matched
    /\ queried' = queried \cup effect.queried
    /\ IF effect.error = "ok" THEN Return ELSE Raise(effect.error)

JavaVariable_check_types ==
    /\ Running("JavaVariable")
    /\ Return
    /\ UNCHANGED <<typed, matched, queried>>

JavaLiteral_check_types ==
    /\ stack # <<>>
    /\ TopNode.kind \in {"JavaLiteral", "JavaNullLiteral"}
    /\ Return
    /\ UNCHANGED <<typed, matched, queried>>

JavaAssignment_check_lhs ==
    /\ Running("JavaAssignment")
    /\ Top.pc = 0
    /\ CallChild(1)

\* a plausible slip: the right side is never checked
JavaAssignment_skip_rhs ==
    /\ Running("JavaAssignment")
    /\ Top.pc = 1
    /\ stack' = [stack EXCEPT ![Len(stack)].pc = 2]
    /\ UNCHANGED <<superclass, root, calls, returned, typed, matched, queried, result,
                   raised_at>>

JavaAssignment_check_rhs ==
    /\ Running("JavaAssignment")
    /\ Top.pc = 1
    /\ CallChild(2)

JavaAssignment_check_types ==
    /\ Running("JavaAssignment")
    /\ Top.pc = 2
    /\ OwnChecks(JavaAssignment_check(TopNode))

JavaMethodCall_check_receiver ==
    /\ Running("JavaMethodCall")
    /\ Top.pc = 0
    /\ CallChild(1)

JavaMethodCall_check_args ==
    /\ Running("JavaMethodCall")
    /\ Top.pc >= 1
    /\ Top.pc <= Len(TopNode.args)
    /\ CallChild(Top.pc + 1)

JavaMethodCall_check_types ==
    /\ Running("JavaMethodCall")
    /\ Top.pc = 1 + Len(TopNode.args)
    /\ OwnChecks(JavaMethodCall_check(TopNode))

JavaConstructorCall_check_args ==
    /\ Running("JavaConstructorCall")
    /\ Top.pc < Len(TopNode.args)
    /\ CallChild(Top.pc + 1)

JavaConstructorCall_check_types ==
    /\ Running("JavaConstructorCall")
    /\ Top.pc = Len(TopNode.args)
    /\ OwnChecks(JavaConstructorCall_check(TopNode))

Next ==
    \/ JavaVariable_check_types
    \/ JavaLiteral_check_types
    \/ JavaAssignment_check_lhs
    \/ JavaAssignment_check_rhs
    \/ JavaAssignment_check_types
    \/ JavaMethodCall_check_receiver
    \/ JavaMethodCall_check_args
    \/ JavaMethodCall_check_types
    \/ JavaConstructorCall_check_args
    \/ JavaConstructorCall_check_types

Spec == Init /\ [][Next]_vars

\* the same checker run only on trees in which no constructor call targets
\* the null type
InstantiatesNull(e) ==
    \E p \in Paths(e) : /\ NodeAt(e, p).kind = "JavaConstructorCall"
                        /\ NodeAt(e, p).instantiated_type = NULL
InitNoNullTarget == Init /\ ~InstantiatesNull(root)
SpecNoNullTarget == InitNoNullTarget /\ [][Next]_vars

(***************************************************************************)
(* Properties                                                              *)
(***************************************************************************)
Done == stack = <<>>
\* every sub-expression of the root was checked and returned without raising
SubexpressionsWellTyped == Descendants(<<>>) \subseteq returned

\* a type followed by its ancestors, in order
RECURSIVE Chain(_)
Chain(type) ==
    IF type \in ClassNames THEN <<type>> \o Chain(superclass[type]) ELSE <<type>>

Declaring(type, name) ==
    {i \in 1..Len(Chain(type)) : methods(Chain(type)[i], name).found}
FirstDeclaration(type, name) ==
    LET i == CHOOSE j \in Declaring(type, name) : \A k \in Declaring(type, name) : j <= k
    IN  methods(Chain(type)[i], name)

\* what checking args against a resolved parameter list must report
ArgumentsVerdict(args, parameter_types) ==
    IF Len(args) # Len(parameter_types) THEN "JavaArgumentCountError"
    ELSE IF \E i \in 1..Len(args) : ~is_subtype_of(static_type(args[i]), parameter_types[i])
    THEN "JavaTypeMismatchError"
    ELSE "ok"

\* C1: an assignment with a well-typed right side of static type S to a
\* variable of declared type T checks successfully iff S is a subtype of T,
\* fails with a type mismatch otherwise, and has static type T.
C1_AssignmentSoundness ==
    (Done /\ root.kind = "JavaAssignment" /\ SubexpressionsWellTyped) =>
        LET S == static_type(root.rhs)
            T == root.lhs.declared_type
        IN  /\ (result = "ok") <=> is_subtype_of(S, T)
            /\ ~is_subtype_of(S, T) => result = "JavaTypeMismatchError"
            /\ static_type(root) = T

\* a subclass instance assigned to a superclass-typed variable was accepted
C1_Witness ==
    /\ Done
    /\ root.kind = "JavaAssignment"
    /\ root.rhs.kind = "JavaConstructorCall"
    /\ static_type(root.rhs) = "B"
    /\ root.lhs.declared_type = "A"
    /\ superclass["B"] = "A"
    /\ result = "ok"

\* C2: a method call, or a constructor call on an object type, whose
\* sub-expressions are well-typed and whose signature resolves, fails with
\* an argument count error whenever the number of arguments differs from the
\* number of parameters, whatever the arguments' types.
C2_CountPrecedesTypes ==
    (Done /\ SubexpressionsWellTyped) =>
        /\ (/\ root.kind = "JavaMethodCall"
            /\ Declaring(static_type(root.receiver), root.method_name) # {}
            /\ Len(FirstDeclaration(static_type(root.receiver),
                                    root.method_name).parameter_types) # Len(root.args))
           => result = "JavaArgumentCountError"
        /\ (/\ root.kind = "JavaConstructorCall"
            /\ root.instantiated_type \in ObjectTypes
            /\ Len(constructor(root.instantiated_type).parameter_types) # Len(root.args))
           => result = "JavaArgumentCountError"

\* one argument of the wrong type passed to a two-parameter method
C2_Witness ==
    /\ Done
    /\ root.kind = "JavaMethodCall"
    /\ static_type(root.receiver) = "B"
    /\ root.method_name = "m"
    /\ Len(root.args) = 1
    /\ ~is_subtype_of(static_type(root.args[1]), INT)
    /\ result = "JavaArgumentCountError"

\* C3 as stated: a constructor call on a primitive type fails with an illegal
\* instantiation error for every argument list, whatever the argument
\* expressions are.
C3_PrimitiveAlwaysIllegal ==
    (Done /\ root.kind = "JavaConstructorCall" /\ root.instantiated_type \in Primitives)
        => result = "JavaIllegalInstantiationError"

\* C3, amended: a constructor call on a primitive type whose argument
\* expressions are all well-typed fails with an illegal instantiation error,
\* for every length of the argument list; an ill-typed argument's own error
\* surfaces instead.
C3_PrimitiveIllegalInstantiation ==
    (Done /\ root.kind = "JavaConstructorCall" /\ root.instantiated_type \in Primitives)
        => IF SubexpressionsWellTyped
           THEN result = "JavaIllegalInstantiationError" /\ raised_at = <<>>
           ELSE result \in Errors /\ raised_at # <<>>

\* a primitive instantiated with two well-typed arguments
C3_Witness ==
    /\ Done
    /\ root.kind = "JavaConstructorCall"
    /\ root.instantiated_type \in Primitives
    /\ Len(root.args) = 2
    /\ SubexpressionsWellTyped
    /\ result = "JavaIllegalInstantiationError"

\* C4: a method call on a well-typed receiver of object type D resolves to
\* the first declaration of the name in D followed by its ancestors: the
\* arguments are checked against that declaration's parameters and the
\* call's static type is its return type; a name declared nowhere in the
\* chain fails with a lookup error.
C4_MethodResolution ==
    (/\ Done
     /\ root.kind = "JavaMethodCall"
     /\ SubexpressionsWellTyped
     /\ static_type(root.receiver) \in ObjectTypes) =>
        LET D == static_type(root.receiver)
        IN  IF Declaring(D, root.method_name) = {}
            THEN result = "NoSuchJavaMethod"
            ELSE LET declaration == FirstDeclaration(D, root.method_name)
                 IN  /\ result = ArgumentsVerdict(root.args, declaration.parameter_types)
                     /\ static_type(root) = declaration.return_type

\* a method declared only on the superclass, called on a subclass receiver
C4_Witness ==
    /\ Done
    /\ root.kind = "JavaMethodCall"
    /\ static_type(root.receiver) = "B"
    /\ superclass["B"] = "A"
    /\ root.method_name = "n"
    /\ ~methods("B", "n").found
    /\ result = "ok"
    /\ static_type(root) = INT

\* C5: subtyping is reflexive, transitive and antisymmetric over all types,
\* and every object type is a subtype of the object root.
C5_SubtypingPartialOrder ==
    /\ \A T \in Types : is_subtype_of(T, T)
    /\ \A T1, T2 \in Types : is_subtype_of(T1, T2) =>
          /\ \A T3 \in Types : is_subtype_of(T2, T3) => is_subtype_of(T1, T3)
          /\ is_subtype_of(T2, T1) => T1 = T2
    /\ \A T \in ObjectTypes : is_subtype_of(T, OBJECT)

\* a two-link superclass chain, used by an accepted assignment to the root
C5_Witness ==
    /\ Done
    /\ superclass["B"] = "A"
    /\ superclass["A"] = OBJECT
    /\ root.kind = "JavaAssignment"
    /\ static_type(root.rhs) = "B"
    /\ root.lhs.declared_type = OBJECT
    /\ result = "ok"

\* C6: the null type is a subtype of the object root and of every object
\* type and of no primitive type; the null literal has the null type, and
\* assigning it succeeds for a variable of object type and fails with a type
\* mismatch for a variable of primitive type.
C6_NullUniversality ==
    /\ \A T \in ObjectTypes : is_subtype_of(NULL, T)
    /\ \A P \in Primitives : ~is_subtype_of(NULL, P)
    /\ static_type(JavaNullLiteral) = NULL
    /\ (Done /\ root.kind = "JavaAssignment" /\ root.rhs = JavaNullLiteral) =>
          /\ root.lhs.declared_type \in ObjectTypes => result = "ok"
          /\ root.lhs.declared_type \in Primitives => result = "JavaTypeMismatchError"

\* null assigned to a variable of primitive type was rejected
C6_Witness ==
    /\ Done
    /\ root.kind = "JavaAssignment"
    /\ root.rhs = JavaNullLiteral
    /\ root.lhs.declared_type = INT
    /\ result = "JavaTypeMismatchError"

\* C7: check_types is entered at most once per node; the sub-expressions of
\* a node are checked in order (lhs, rhs; receiver, arguments; arguments),
\* each after its elder siblings returned; when a node makes its own checks
\* every descendant has been checked exactly once and returned; so an
\* exception raised by a node's own checks finds all its descendants
\* well-typed, and it is the error that surfaces.
C7_BottomUp ==
    /\ \A p \in DOMAIN calls : calls[p] <= 1
    /\ \A q \in DOMAIN calls : (q # <<>> /\ calls[q] > 0) =>
          /\ calls[SubSeq(q, 1, Len(q) - 1)] > 0
          /\ \A j \in 1..(q[Len(q)] - 1) :
                (SubSeq(q, 1, Len(q) - 1) \o <<j>>) \in returned
    /\ \A k \in 1..Len(stack) :
          stack[k].pc = Len(Children(NodeAt(root, stack[k].path))) =>
              \A q \in Descendants(stack[k].path) : calls[q] = 1 /\ q \in returned
    /\ \A p \in returned : \A q \in Descendants(p) : calls[q] = 1 /\ q \in returned
    /\ raised_at # NoPath =>
          /\ Done
          /\ result \in Errors
          /\ raised_at \notin returned
          /\ \A q \in Descendants(raised_at) : calls[q] = 1 /\ q \in returned
    /\ (Done /\ ~SubexpressionsWellTyped) => raised_at \in Descendants(<<>>)

\* an ill-typed receiver is reported, not the lookup failure of the call on it
C7_Witness ==
    /\ Done
    /\ root.kind = "JavaMethodCall"
    /\ raised_at = <<1>>
    /\ result = "JavaIllegalInstantiationError"
    /\ JavaMethodCall_check(root).error = "NoSuchJavaMethod"

\* what the ordering policy prescribes for a call whose sub-expressions are
\* well-typed: callee resolution, then argument count, then argument types
CallVerdict(e) ==
    IF e.kind = "JavaMethodCall"
    THEN LET receiver_type == static_type(e.receiver)
         IN  IF Declaring(receiver_type, e.method_name) = {} THEN "NoSuchJavaMethod"
             ELSE ArgumentsVerdict(e.args,
                      FirstDeclaration(receiver_type, e.method_name).parameter_types)
    ELSE IF e.instantiated_type \notin ObjectTypes THEN "JavaIllegalInstantiationError"
         ELSE ArgumentsVerdict(e.args, constructor(e.instantiated_type).parameter_types)

\* C8: a call node reports at most one error, the first violated precondition
\* in the order sub-expression errors, callee resolution (lookup failure for
\* a method call, illegal instantiation for a constructor call), argument
\* count, argument types.
C8_ErrorPrecedence ==
    (Done /\ root.kind \in {"JavaMethodCall", "JavaConstructorCall"}) =>
        IF SubexpressionsWellTyped
        THEN result = CallVerdict(root)
        ELSE result \in Errors /\ raised_at \in Descendants(<<>>)

\* C9: a constructor call reads the constructor only of an object type that
\* has one; for any other target (a primitive type, the null type) with
\* well-typed arguments checking ends with an illegal instantiation error.
C9_ConstructorGuarded ==
    /\ \A t \in queried : HasConstructor(t)
    /\ (/\ Done
        /\ root.kind = "JavaConstructorCall"
        /\ ~HasConstructor(root.instantiated_type)
        /\ SubexpressionsWellTyped) => result = "JavaIllegalInstantiationError"

\* C10: static_type is evaluated only on nodes whose check_types has
\* returned; check_argument_match is entered only with lists of equal
\* length; and on a tree that checks successfully static_type of every node
\* is a type.
C10_CheckedBeforeTyped ==
    /\ typed \subseteq returned
    /\ \A m \in matched : m[1] = m[2]
    /\ result \notin {"IndexError"}
    /\ result = "ok" =>
          \A p \in DOMAIN calls : static_type(NodeAt(root, p)) \in Types

\* a two-argument constructor call matched position by position and accepted
C10_Witness ==
    /\ Done
    /\ result = "ok"
    /\ root.kind = "JavaConstructorCall"
    /\ matched = {<<2, 2>>}
    /\ typed = {<<1>>, <<2>>}

====
